---- MODULE Spec2Model ----
(***************************************************************************)
(* Engagement (like_post, follow_user, share_post, comments), post detail, *)
(* feed and search of the travel-post backend (works/views.py,             *)
(* works/models.py).                                                       *)
(*                                                                         *)
(* Storage model.  No view is wrapped in transaction.atomic and the        *)
(* requests run in autocommit mode, so every ORM call (get, get_or_create's *)
(* SELECT and INSERT, delete, save(update_fields=...)) is one statement    *)
(* that commits on its own; statements of concurrent requests interleave.  *)
(* A request is a process r \in Procs whose pc[r] is the statement it      *)
(* executes next.                                                          *)
(***************************************************************************)
EXTENDS Integers, Sequences, FiniteSets, TLC

(* ------------------------------ bounds --------------------------------- *)
NumUsers == 2
NumPosts == 3
NumProcs == 2
MaxCalls == 4
MaxSeqCalls == 3
MaxFollowCalls == 2
MaxClock == 1
NumDestinations == 2
NumTags == 11
MaxQueryLen == 2
MaxFeedPosts == 45
MaxServeCalls == 1
MaxShareCalls == 2
MaxCreateCalls == 2

(* ------------------------- program constants --------------------------- *)
TrendingWindowHours == 24
FeedDefaultPageSize == 10
FeedMaxPageSize == 20
ListPageSize == 20
ListMaxPageSize == 100
SearchLimit == 10

Users == 1..NumUsers
Posts == 1..NumPosts
Procs == 1..NumProcs
UnknownId == 0       \* a uuid that names no row
Anonymous == 0       \* request.user of an unauthenticated request

VARIABLES
    TravelPost,      \* table: post id -> row
    User,            \* table: user id -> row (the two follow counters)
    PostLike,        \* table: set of rows [id, user, post]
    UserFollow,      \* table: set of rows [id, follower, following]
    UserPreference,  \* table: user id -> "absent" | "show3d" | "hide3d"
    PostShare,       \* table: set of rows [id, user, post, platform]
    PostComment,     \* table: set of rows [id, user, post]
    PostView,        \* table: set of rows [id, user, post]
    Destination,     \* table: destination id -> row (name, country, city)
    PostTag,         \* table: tag id -> row (name, posts_count)
    PostTagRelation, \* table: set of rows [id, post, tag]
    pc,              \* per request: the statement to execute next
    req,             \* per request: [kind, actor, target, ...]
    held,            \* per request: pk of the relation row get_or_create returned
    created,         \* per request: get_or_create's second result
    obj,             \* per request: the post instance get_object loaded
    ndel,            \* per request: rows removed by its delete()
    nadj,            \* per request: counter UPDATEs it has committed
    resp,            \* per request: the response
    calls,           \* toggle requests started so far (reads store nothing)
    hist             \* sequential runs only: the last two calls started

vars == <<TravelPost, User, PostLike, UserFollow, UserPreference,
          PostShare, PostComment, PostView, Destination, PostTag,
          PostTagRelation,
          pc, req, held, created, obj, ndel, nadj, resp, calls, hist>>

\* The tables like_post and follow_user never write.
sideTables == <<PostShare, PostComment, PostView, Destination, PostTag,
                PostTagRelation>>

tables == <<TravelPost, User, PostLike, UserFollow, UserPreference, sideTables>>

(* ------------------------------- text ---------------------------------- *)
\* A string is a sequence of one-character strings.
Letters == <<"a", "b", "c">>

\* Three-letter names, pairwise different for n < 27.
Name3(n) ==
    <<Letters[(n % 3) + 1], Letters[((n \div 3) % 3) + 1],
      Letters[((n \div 9) % 3) + 1]>>

\* str.lower() on the characters requests carry here
Lower(c) ==
    CASE c = "A" -> "a"
      [] c = "B" -> "b"
      [] c = "C" -> "c"
      [] OTHER   -> c

LowerText(t) == [i \in 1..Len(t) |-> Lower(t[i])]

Contains(t, pat) ==
    \E i \in 0..(Len(t) - Len(pat)) : SubSeq(t, i + 1, i + Len(pat)) = pat

\* field__icontains=pat: case-insensitive substring (LIKE '%pat%')
icontains(t, pat) == Contains(LowerText(t), LowerText(pat))

\* str.strip(): whitespace removed at both ends
strip(t) ==
    LET idx == {i \in 1..Len(t) : t[i] # " "}
    IN  IF idx = {} THEN <<>>
        ELSE SubSeq(t, CHOOSE i \in idx : \A j \in idx : i <= j,
                       CHOOSE i \in idx : \A j \in idx : i >= j)

\* str.replace(c, ''): every occurrence of the character removed
replace(t, c) ==
    LET Keep(x) == x # c
    IN  SelectSeq(t, Keep)

\* str.split(): the maximal runs of non-whitespace characters, in order
RECURSIVE split(_)
split(t) ==
    LET rest == strip(t)
        gaps == {i \in 1..Len(rest) : rest[i] = " "}
        cut  == IF gaps = {} THEN Len(rest) + 1
                ELSE CHOOSE i \in gaps : \A j \in gaps : i <= j
    IN  IF rest = <<>> THEN <<>>
        ELSE <<SubSeq(rest, 1, cut - 1)>> \o split(SubSeq(rest, cut, Len(rest)))

DigitChars == <<"0", "1", "2", "3", "4", "5", "6", "7", "8", "9">>

IsDigit(c) == \E d \in 1..Len(DigitChars) : DigitChars[d] = c

DigitValue(c) == (CHOOSE d \in 1..Len(DigitChars) : DigitChars[d] = c) - 1

Unsigned(t) == IF t # <<>> /\ t[1] \in {"-", "+"} THEN Tail(t) ELSE t

\* int(text) raises ValueError unless the text is an optional sign and
\* decimal digits
IsIntText(t) ==
    /\ Unsigned(t) # <<>>
    /\ \A i \in 1..Len(Unsigned(t)) : IsDigit(Unsigned(t)[i])

RECURSIVE DigitsValue(_)
DigitsValue(t) ==
    IF t = <<>> THEN 0
    ELSE DigitsValue(SubSeq(t, 1, Len(t) - 1)) * 10 + DigitValue(t[Len(t)])

int(t) ==
    IF t[1] = "-" THEN 0 - DigitsValue(Unsigned(t)) ELSE DigitsValue(Unsigned(t))

(* ----------------------------- fixtures -------------------------------- *)
\* Posts already stored when the run starts: two public posts by different
\* authors half a trending window apart, every third post private.
InitialPost(p) ==
    [user           |-> ((p - 1) % NumUsers) + 1,
     is_public      |-> (p % 3 # 0),
     featured_3d    |-> (p % 2 = 1),
     created_at     |-> ((p - 1) % 2) * (TrendingWindowHours \div 2),
     description    |-> Name3(p - 1),
     likes_count    |-> 0,
     comments_count |-> 0,
     shares_count   |-> 0,
     views_count    |-> 0]

InitialUser(u) ==
    [username |-> Name3(u + 2), first_name |-> <<>>, last_name |-> <<>>,
     followers_count |-> 0, following_count |-> 0]

\* unique_together = ['name', 'country']
InitialDestination(d) == [name |-> Name3(d + 9), country |-> <<"b">>, city |-> <<>>]

\* PostTag.name is unique
InitialTag(t) == [name |-> Name3(t - 1), posts_count |-> 0]

InitialPreference(u) ==
    IF u % 3 = 1 THEN "absent" ELSE IF u % 3 = 2 THEN "hide3d" ELSE "show3d"

NoResponse == [status |-> 0, flag |-> "none", results |-> <<>>,
               has_next |-> FALSE, now |-> 0,
               users |-> {}, destinations |-> {}, posts |-> {}, tags |-> {}]

NoObject == <<>>

\* An optional request field is <<>> when the request does not carry it and
\* <<value>> when it does.
NoRequest == [kind |-> "none", actor |-> 0, target |-> 0, feed |-> "latest",
              ordering |-> "none", page_size |-> <<>>, offset |-> <<>>,
              platform |-> <<>>, content |-> <<>>, is_public |-> <<>>,
              q |-> <<>>, destination_id |-> 0, tags_input |-> <<>>]

\* Everything but the posts, their likes and the tags.
InitOther ==
    /\ User = [u \in Users |-> InitialUser(u)]
    /\ UserFollow = {}
    /\ UserPreference = [u \in Users |-> InitialPreference(u)]
    /\ PostShare = {}
    /\ PostComment = {}
    /\ PostView = {}
    /\ Destination = [d \in 1..NumDestinations |-> InitialDestination(d)]
    /\ PostTagRelation = {}
    /\ pc = [r \in Procs |-> "idle"]
    /\ req = [r \in Procs |-> NoRequest]
    /\ held = [r \in Procs |-> 0]
    /\ created = [r \in Procs |-> FALSE]
    /\ obj = [r \in Procs |-> NoObject]
    /\ ndel = [r \in Procs |-> 0]
    /\ nadj = [r \in Procs |-> 0]
    /\ resp = [r \in Procs |-> NoResponse]
    /\ calls = 0
    /\ hist = <<>>

\* Everything but the posts and their likes.
InitRest ==
    /\ PostTag = [t \in 1..NumTags |-> InitialTag(t)]
    /\ InitOther

InitStore == PostLike = {} /\ InitRest

Init ==
    /\ TravelPost = [p \in Posts |-> InitialPost(p)]
    /\ InitStore

\* A store of n public posts with pairwise different creation times.
FeedPost(p) == [InitialPost(p) EXCEPT !.is_public = TRUE, !.created_at = p]

PostCounts == {NumPosts, FeedMaxPageSize + 1, MaxFeedPosts}

\* A store in which the second post already has a like.
InitServe ==
    /\ TravelPost = [p \in Posts |->
                       [InitialPost(p) EXCEPT !.likes_count = IF p = 2 THEN 1 ELSE 0]]
    /\ PostLike = {[id |-> 1, user |-> 1, post |-> 2]}
    /\ InitRest

InitPage ==
    /\ \E n \in PostCounts : TravelPost = [p \in 1..n |-> FeedPost(p)]
    /\ InitStore

(* --------------------------- storage layer ----------------------------- *)
\* uuid.uuid4 primary keys: a new row's pk differs from every stored pk and
\* from every pk a running request still holds.
FreshId(rows) ==
    LET used == {x.id : x \in rows} \cup {held[r] : r \in Procs}
    IN  CHOOSE i \in 1..(Cardinality(used) + 1) : i \notin used

LikeRows(u, p) == {x \in PostLike : x.user = u /\ x.post = p}
FollowRows(a, b) == {x \in UserFollow : x.follower = a /\ x.following = b}

\* unique_together = ['user', 'post']: the INSERT is rejected (IntegrityError)
\* when a row for the pair is stored.
PostLikeUniqueViolation(u, p) == LikeRows(u, p) # {}

\* unique_together = ['follower', 'following']
UserFollowUniqueViolation(a, b) == FollowRows(a, b) # {}

\* PositiveIntegerField: the column carries CHECK (col >= 0) (unsigned on
\* MySQL), so an UPDATE that would store a negative value is rejected.
PositiveIntegerCheck(v) == v >= 0

\* TravelPost.objects.get(id=post_id, is_public=True)
PublicPostExists_AnyPost(p) == p \in DOMAIN TravelPost

PublicPostExists(p) == p \in DOMAIN TravelPost /\ TravelPost[p].is_public

\* TravelPostSerializer.get_is_liked
get_is_liked(u, p) == u # Anonymous /\ LikeRows(u, p) # {}

(* ------------------------- request bookkeeping ------------------------- *)
Quiet(r) == pc[r] \in {"idle", "done"}
AllQuiet == \A r \in Procs : Quiet(r)

\* Response(...) of like_post: the body reads post.likes_count after the
\* attribute was assigned an F() expression.  Where save() leaves the
\* expression on the instance the body cannot be built or rendered and the
\* request ends in a server error after its writes were committed; where
\* save() refreshes the attribute the body is returned.
LikeResponseStatuses == {200, 500}

Respond(r, status, flag) ==
    /\ resp' = [resp EXCEPT ![r] = [NoResponse EXCEPT !.status = status,
                                                      !.flag = flag]]
    /\ pc' = [pc EXCEPT ![r] = "done"]

Goto(r, label) ==
    /\ pc' = [pc EXCEPT ![r] = label]
    /\ UNCHANGED resp

\* PostShare.platform choices (models.py 176-188)
Platforms == {"native", "instagram", "twitter", "facebook", "whatsapp",
              "telegram", "copy_link"}

\* request.data['platform'] of share_post: absent, a listed name, or any
\* other string
PlatformInputs == {<<>>, <<"whatsapp">>, <<"myspace">>}

\* request.data['tags_input'] of a post creation: absent, blank, one tag,
\* the same tag twice, two tags, a word that is no tag before a tag
TagsInputs ==
    {<<>>,
     <<<<" ">>>>,
     <<<<"#", "a">>>>,
     <<<<"#", "a", " ", "#", "a">>>>,
     <<<<"#", "a", " ", "#", "b">>>>,
     <<<<"b", " ", "#", "a", "#">>>>}

\* request.data['content'] of a comment: absent or a text
ContentInputs == {<<>>, <<<<"a">>>>}

\* TravelPostDetailView: GET, PUT / PATCH, DELETE
DetailKinds == {"retrieve", "update", "destroy"}

EntryLabel(k) ==
    CASE k = "like"    -> "like_get_post"
      [] k = "follow"  -> "follow_get_user"
      [] k = "share"   -> "share_get_post"
      [] k = "comment" -> "comment_validate"
      [] k \in DetailKinds -> "detail_permission"
      [] k = "create"  -> "create_validate"

\* A request arrives: the engagement endpoints run only for authenticated
\* callers (IsAuthenticated; IsAuthenticatedOrReadOnly on a POST), so their
\* actor is a stored user; a post detail request may be anonymous.  The
\* path id may name no row.
StartCallOf(r, kinds, max) ==
    /\ Quiet(r)
    /\ calls < max
    /\ calls' = calls + 1
    /\ \E k \in kinds :
         \E u \in (IF k \in DetailKinds THEN Users \cup {Anonymous} ELSE Users),
            t \in (IF k = "create" THEN {}
                   ELSE IF k = "follow" THEN Users ELSE Posts) \cup {UnknownId},
            pl \in (IF k = "share" THEN PlatformInputs ELSE {<<>>}),
            c \in (IF k = "comment" THEN ContentInputs ELSE {<<>>}),
            pub \in (IF k = "update" THEN {<<TRUE>>, <<FALSE>>} ELSE {<<>>}),
            d \in (IF k = "create" THEN DOMAIN Destination \cup {UnknownId}
                                   ELSE {UnknownId}),
            tg \in (IF k = "create" THEN TagsInputs ELSE {<<>>}) :
            /\ req' = [req EXCEPT ![r] = [NoRequest EXCEPT !.kind = k,
                                              !.actor = u, !.target = t,
                                              !.platform = pl, !.content = c,
                                              !.is_public = pub,
                                              !.destination_id = d,
                                              !.tags_input = tg]]
            /\ pc' = [pc EXCEPT ![r] = EntryLabel(k)]
    /\ held' = [held EXCEPT ![r] = 0]
    /\ created' = [created EXCEPT ![r] = FALSE]
    /\ ndel' = [ndel EXCEPT ![r] = 0]
    /\ nadj' = [nadj EXCEPT ![r] = 0]
    /\ resp' = [resp EXCEPT ![r] = NoResponse]
    /\ obj' = [obj EXCEPT ![r] = NoObject]
    /\ UNCHANGED tables

Start(r) == StartCallOf(r, {"like", "follow"}, MaxCalls) /\ UNCHANGED hist

StartFollow(r) == StartCallOf(r, {"follow"}, MaxFollowCalls) /\ UNCHANGED hist

(* ------------------------------ like_post ------------------------------ *)
\* views.py 203-206
LikeGetPost(r) ==
    /\ pc[r] = "like_get_post"
    /\ IF PublicPostExists(req[r].target)
         THEN Goto(r, "like_goc_get")
         ELSE Respond(r, 404, "none")
    /\ UNCHANGED <<tables, req, held, created, ndel, nadj, calls, hist, obj>>

\* get_or_create, first statement: SELECT by (user, post)
LikeGocGet(r) ==
    /\ pc[r] = "like_goc_get"
    /\ LET rows == LikeRows(req[r].actor, req[r].target)
       IN  IF rows # {}
             THEN /\ held' = [held EXCEPT ![r] = (CHOOSE x \in rows : TRUE).id]
                  /\ Goto(r, "like_delete")
             ELSE /\ UNCHANGED held
                  /\ Goto(r, "like_goc_insert")
    /\ UNCHANGED <<tables, req, created, ndel, nadj, calls, hist, obj>>

\* get_or_create, second statement: INSERT; on IntegrityError it selects again
LikeGocInsert(r) ==
    /\ pc[r] = "like_goc_insert"
    /\ IF PostLikeUniqueViolation(req[r].actor, req[r].target)
         THEN /\ Goto(r, "like_goc_reget")
              /\ UNCHANGED <<PostLike, held, created>>
         ELSE LET id == FreshId(PostLike)
              IN  /\ PostLike' = PostLike \cup
                        {[id |-> id, user |-> req[r].actor, post |-> req[r].target]}
                  /\ held' = [held EXCEPT ![r] = id]
                  /\ created' = [created EXCEPT ![r] = TRUE]
                  /\ Goto(r, "like_inc")
    /\ UNCHANGED <<TravelPost, User, UserFollow, UserPreference, sideTables,
                   req, ndel, nadj, calls, hist, obj>>

\* get_or_create after IntegrityError: the SELECT again; the row found is
\* returned with created = False, a row gone again re-raises the error.
LikeGocReget(r) ==
    /\ pc[r] = "like_goc_reget"
    /\ LET rows == LikeRows(req[r].actor, req[r].target)
       IN  IF rows # {}
             THEN /\ held' = [held EXCEPT ![r] = (CHOOSE x \in rows : TRUE).id]
                  /\ Goto(r, "like_delete")
             ELSE /\ UNCHANGED held
                  /\ Respond(r, 500, "none")
    /\ UNCHANGED <<tables, req, created, ndel, nadj, calls, hist, obj>>

\* A counter computed in application memory from the post as first stored
LikesCountAfter_ReadModifyWrite(p, d) == InitialPost(p).likes_count + d

\* The value post.save(update_fields=['likes_count']) writes for F + d
LikesCountAfter(p, d) == TravelPost[p].likes_count + d

\* views.py 214-216
LikeInc(r) ==
    /\ pc[r] = "like_inc"
    /\ TravelPost' = [TravelPost EXCEPT ![req[r].target].likes_count =
                          LikesCountAfter(req[r].target, 1)]
    /\ nadj' = [nadj EXCEPT ![r] = @ + 1]
    /\ \E s \in LikeResponseStatuses :
          Respond(r, s, IF s = 200 THEN "true" ELSE "none")
    /\ UNCHANGED <<User, PostLike, UserFollow, UserPreference, sideTables,
                   req, held, created, ndel, calls, hist, obj>>

\* views.py 219: like.delete() is DELETE ... WHERE id = <pk of the fetched row>
LikeDelete(r) ==
    /\ pc[r] = "like_delete"
    /\ LET gone == {x \in PostLike : x.id = held[r]}
       IN  /\ PostLike' = PostLike \ gone
           /\ ndel' = [ndel EXCEPT ![r] = Cardinality(gone)]
    /\ Goto(r, "like_dec")
    /\ UNCHANGED <<TravelPost, User, UserFollow, UserPreference, sideTables,
                   req, held, created, nadj, calls, hist, obj>>

\* views.py 220-222
LikeDec(r) ==
    /\ pc[r] = "like_dec"
    /\ IF PositiveIntegerCheck(LikesCountAfter(req[r].target, -1))
         THEN /\ TravelPost' = [TravelPost EXCEPT ![req[r].target].likes_count =
                                    LikesCountAfter(req[r].target, -1)]
              /\ nadj' = [nadj EXCEPT ![r] = @ + 1]
              /\ \E s \in LikeResponseStatuses :
                    Respond(r, s, IF s = 200 THEN "false" ELSE "none")
         ELSE /\ UNCHANGED <<TravelPost, nadj>>
              /\ Respond(r, 500, "none")
    /\ UNCHANGED <<User, PostLike, UserFollow, UserPreference, sideTables,
                   req, held, created, ndel, calls, hist, obj>>

(* ----------------------------- follow_user ----------------------------- *)
\* follow_user without its self-follow check
IsSelfFollow_Unchecked(actor, target) == FALSE

\* views.py 278: the self-follow check
IsSelfFollow(actor, target) == target = actor

\* views.py 273-279
FollowGetUser(r) ==
    /\ pc[r] = "follow_get_user"
    /\ IF req[r].target \notin Users
         THEN Respond(r, 404, "none")
         ELSE IF IsSelfFollow(req[r].actor, req[r].target)
                THEN Respond(r, 400, "none")
                ELSE Goto(r, "follow_goc_get")
    /\ UNCHANGED <<tables, req, held, created, ndel, nadj, calls, hist, obj>>

FollowGocGet(r) ==
    /\ pc[r] = "follow_goc_get"
    /\ LET rows == FollowRows(req[r].actor, req[r].target)
       IN  IF rows # {}
             THEN /\ held' = [held EXCEPT ![r] = (CHOOSE x \in rows : TRUE).id]
                  /\ Goto(r, "follow_delete")
             ELSE /\ UNCHANGED held
                  /\ Goto(r, "follow_goc_insert")
    /\ UNCHANGED <<tables, req, created, ndel, nadj, calls, hist, obj>>

FollowGocInsert(r) ==
    /\ pc[r] = "follow_goc_insert"
    /\ IF UserFollowUniqueViolation(req[r].actor, req[r].target)
         THEN /\ Goto(r, "follow_goc_reget")
              /\ UNCHANGED <<UserFollow, held, created>>
         ELSE LET id == FreshId(UserFollow)
              IN  /\ UserFollow' = UserFollow \cup
                        {[id |-> id, follower |-> req[r].actor,
                          following |-> req[r].target]}
                  /\ held' = [held EXCEPT ![r] = id]
                  /\ created' = [created EXCEPT ![r] = TRUE]
                  /\ Goto(r, "follow_inc_followers")
    /\ UNCHANGED <<TravelPost, User, PostLike, UserPreference, sideTables,
                   req, ndel, nadj, calls, hist, obj>>

FollowGocReget(r) ==
    /\ pc[r] = "follow_goc_reget"
    /\ LET rows == FollowRows(req[r].actor, req[r].target)
       IN  IF rows # {}
             THEN /\ held' = [held EXCEPT ![r] = (CHOOSE x \in rows : TRUE).id]
                  /\ Goto(r, "follow_delete")
             ELSE /\ UNCHANGED held
                  /\ Respond(r, 500, "none")
    /\ UNCHANGED <<tables, req, created, ndel, nadj, calls, hist, obj>>

\* The unfollow branch saving an unchanged counter
FollowersCountAfter_LostDecrement(u, d) ==
    IF d < 0 THEN User[u].followers_count ELSE User[u].followers_count + d
FollowingCountAfter_LostDecrement(u, d) ==
    IF d < 0 THEN User[u].following_count ELSE User[u].following_count + d

\* The value save(update_fields=[...]) writes for F(counter) + d
FollowersCountAfter(u, d) == User[u].followers_count + d
FollowingCountAfter(u, d) == User[u].following_count + d

\* views.py 287-288
FollowIncFollowers(r) ==
    /\ pc[r] = "follow_inc_followers"
    /\ User' = [User EXCEPT ![req[r].target].followers_count =
                    FollowersCountAfter(req[r].target, 1)]
    /\ nadj' = [nadj EXCEPT ![r] = @ + 1]
    /\ Goto(r, "follow_inc_following")
    /\ UNCHANGED <<TravelPost, PostLike, UserFollow, UserPreference, sideTables,
                   req, held, created, ndel, calls, hist, obj>>

\* views.py 290-293
FollowIncFollowing(r) ==
    /\ pc[r] = "follow_inc_following"
    /\ User' = [User EXCEPT ![req[r].actor].following_count =
                    FollowingCountAfter(req[r].actor, 1)]
    /\ nadj' = [nadj EXCEPT ![r] = @ + 1]
    /\ Respond(r, 200, "true")
    /\ UNCHANGED <<TravelPost, PostLike, UserFollow, UserPreference, sideTables,
                   req, held, created, ndel, calls, hist, obj>>

\* views.py 296
FollowDelete(r) ==
    /\ pc[r] = "follow_delete"
    /\ LET gone == {x \in UserFollow : x.id = held[r]}
       IN  /\ UserFollow' = UserFollow \ gone
           /\ ndel' = [ndel EXCEPT ![r] = Cardinality(gone)]
    /\ Goto(r, "follow_dec_followers")
    /\ UNCHANGED <<TravelPost, User, PostLike, UserPreference, sideTables,
                   req, held, created, nadj, calls, hist, obj>>

\* views.py 298-299
FollowDecFollowers(r) ==
    /\ pc[r] = "follow_dec_followers"
    /\ IF PositiveIntegerCheck(FollowersCountAfter(req[r].target, -1))
         THEN /\ User' = [User EXCEPT ![req[r].target].followers_count =
                              FollowersCountAfter(req[r].target, -1)]
              /\ nadj' = [nadj EXCEPT ![r] = @ + 1]
              /\ Goto(r, "follow_dec_following")
         ELSE /\ UNCHANGED <<User, nadj>>
              /\ Respond(r, 500, "none")
    /\ UNCHANGED <<TravelPost, PostLike, UserFollow, UserPreference, sideTables,
                   req, held, created, ndel, calls, hist, obj>>

\* views.py 301-304
FollowDecFollowing(r) ==
    /\ pc[r] = "follow_dec_following"
    /\ IF PositiveIntegerCheck(FollowingCountAfter(req[r].actor, -1))
         THEN /\ User' = [User EXCEPT ![req[r].actor].following_count =
                              FollowingCountAfter(req[r].actor, -1)]
              /\ nadj' = [nadj EXCEPT ![r] = @ + 1]
              /\ Respond(r, 200, "false")
         ELSE /\ UNCHANGED <<User, nadj>>
              /\ Respond(r, 500, "none")
    /\ UNCHANGED <<TravelPost, PostLike, UserFollow, UserPreference, sideTables,
                   req, held, created, ndel, calls, hist, obj>>


(* ------------------------------ share_post ----------------------------- *)
ShareRows(p) == {x \in PostShare : x.post = p}
CommentRows(p) == {x \in PostComment : x.post = p}

\* Response(...) of share_post: the body reads post.shares_count + 1 after
\* the attribute was assigned an F() expression (see LikeResponseStatuses).
ShareResponseStatuses == {200, 500}

\* views.py 228-231
ShareGetPost(r) ==
    /\ pc[r] = "share_get_post"
    /\ IF PublicPostExists(req[r].target)
         THEN Goto(r, "share_insert")
         ELSE Respond(r, 404, "none")
    /\ UNCHANGED <<tables, req, held, created, ndel, nadj, calls, hist, obj>>

\* views.py 233: request.data.get('platform', 'native')
SharePlatform(param) == IF param = <<>> THEN "native" ELSE param[1]

\* views.py 235-239: objects.create() runs no validators, the choices of
\* the field are not checked; the INSERT needs the post row (foreign key).
ShareInsert(r) ==
    /\ pc[r] = "share_insert"
    /\ IF req[r].target \notin DOMAIN TravelPost
         THEN /\ Respond(r, 500, "none")
              /\ UNCHANGED <<PostShare, held, created>>
         ELSE LET id == FreshId(PostShare)
              IN  /\ PostShare' = PostShare \cup
                        {[id |-> id, user |-> req[r].actor, post |-> req[r].target,
                          platform |-> SharePlatform(req[r].platform)]}
                  /\ held' = [held EXCEPT ![r] = id]
                  /\ created' = [created EXCEPT ![r] = TRUE]
                  /\ Goto(r, "share_inc")
    /\ UNCHANGED <<TravelPost, User, PostLike, UserFollow, UserPreference,
                   PostComment, PostView, Destination, PostTag, PostTagRelation,
                   req, ndel, nadj, calls, hist, obj>>

\* F('shares_count') + 1: evaluated by the UPDATE on the stored value
SharesCountAfter_NotSaved(p) == TravelPost[p].shares_count

SharesCountAfter(p) == TravelPost[p].shares_count + 1

\* views.py 242-245; save(update_fields=...) raises when the row is gone
ShareInc(r) ==
    /\ pc[r] = "share_inc"
    /\ LET p == req[r].target
       IN  IF p \in DOMAIN TravelPost
             THEN /\ TravelPost' = [TravelPost EXCEPT
                                      ![p].shares_count = SharesCountAfter(p)]
                  /\ nadj' = [nadj EXCEPT ![r] = @ + 1]
                  /\ \E st \in ShareResponseStatuses : Respond(r, st, "true")
             ELSE /\ Respond(r, 500, "none")
                  /\ UNCHANGED <<TravelPost, nadj>>
    /\ UNCHANGED <<User, PostLike, UserFollow, UserPreference, sideTables,
                   req, held, created, ndel, calls, hist, obj>>

(* ------------------- PostCommentListView (POST) ------------------------ *)
\* CreateModelMixin.create: serializer.is_valid(raise_exception=True); the
\* content field is required
CommentValidate(r) ==
    /\ pc[r] = "comment_validate"
    /\ IF req[r].content = <<>>
         THEN Respond(r, 400, "none")
         ELSE Goto(r, "comment_get_post")
    /\ UNCHANGED <<tables, req, held, created, ndel, nadj, calls, hist, obj>>

\* views.py 260-261: the lookup is not guarded, TravelPost.DoesNotExist
\* leaves the view as an unhandled exception
CommentGetPost(r) ==
    /\ pc[r] = "comment_get_post"
    /\ IF PublicPostExists(req[r].target)
         THEN Goto(r, "comment_insert")
         ELSE Respond(r, 500, "none")
    /\ UNCHANGED <<tables, req, held, created, ndel, nadj, calls, hist, obj>>

\* views.py 263: serializer.save(user=..., post=post)
CommentInsert(r) ==
    /\ pc[r] = "comment_insert"
    /\ IF req[r].target \notin DOMAIN TravelPost
         THEN /\ Respond(r, 500, "none")
              /\ UNCHANGED <<PostComment, held, created>>
         ELSE LET id == FreshId(PostComment)
              IN  /\ PostComment' = PostComment \cup
                        {[id |-> id, user |-> req[r].actor, post |-> req[r].target]}
                  /\ held' = [held EXCEPT ![r] = id]
                  /\ created' = [created EXCEPT ![r] = TRUE]
                  /\ Goto(r, "comment_inc")
    /\ UNCHANGED <<TravelPost, User, PostLike, UserFollow, UserPreference,
                   PostShare, PostView, Destination, PostTag, PostTagRelation,
                   req, ndel, nadj, calls, hist, obj>>

CommentsCountAfter(p) == TravelPost[p].comments_count + 1

\* views.py 266-267, then Response(serializer.data, 201)
CommentInc(r) ==
    /\ pc[r] = "comment_inc"
    /\ LET p == req[r].target
       IN  IF p \in DOMAIN TravelPost
             THEN /\ TravelPost' = [TravelPost EXCEPT
                                      ![p].comments_count = CommentsCountAfter(p)]
                  /\ nadj' = [nadj EXCEPT ![r] = @ + 1]
                  /\ Respond(r, 201, "none")
             ELSE /\ Respond(r, 500, "none")
                  /\ UNCHANGED <<TravelPost, nadj>>
    /\ UNCHANGED <<User, PostLike, UserFollow, UserPreference, sideTables,
                   req, held, created, ndel, calls, hist, obj>>

(* ------------------------- TravelPostDetailView ------------------------ *)
ViewRows(u, p) == {x \in PostView : x.user = u /\ x.post = p}

\* IsAuthenticatedOrReadOnly: an anonymous caller may only read.  The view
\* has no object permission: the caller is not compared with post.user.
DetailCheckPermission(r) ==
    /\ pc[r] = "detail_permission"
    /\ IF req[r].kind # "retrieve" /\ req[r].actor = Anonymous
         THEN \E st \in {401, 403} : Respond(r, st, "none")
         ELSE Goto(r, "detail_get_object")
    /\ UNCHANGED <<tables, req, held, created, ndel, nadj, calls, hist, obj>>

\* views.py 164-170: super().get_object() on the is_public queryset
DetailGetObject(r) ==
    /\ pc[r] = "detail_get_object"
    /\ IF PublicPostExists(req[r].target)
         THEN /\ obj' = [obj EXCEPT ![r] = [row |-> TravelPost[req[r].target],
                                            views_expr |-> FALSE]]
              /\ Goto(r, IF req[r].actor = Anonymous THEN "detail_track_insert"
                                                     ELSE "detail_track_get")
         ELSE /\ Respond(r, 404, "none")
              /\ UNCHANGED obj
    /\ UNCHANGED <<tables, req, held, created, ndel, nadj, calls, hist>>

\* views.py 173-178: PostView.objects.get_or_create, the SELECT; PostView
\* has no unique constraint, get() raises MultipleObjectsReturned on two rows
DetailTrackGet(r) ==
    /\ pc[r] = "detail_track_get"
    /\ LET n == Cardinality(ViewRows(req[r].actor, req[r].target))
       IN  IF n = 0 THEN Goto(r, "detail_track_insert")
           ELSE IF n = 1 THEN Goto(r, "detail_inc_views")
           ELSE Respond(r, 500, "none")
    /\ UNCHANGED <<tables, req, held, created, ndel, nadj, calls, hist, obj>>

\* views.py 173-183: the INSERT of get_or_create, or PostView.objects.create
\* for an anonymous caller (user = NULL)
DetailTrackInsert(r) ==
    /\ pc[r] = "detail_track_insert"
    /\ IF req[r].target \notin DOMAIN TravelPost
         THEN /\ Respond(r, 500, "none")
              /\ UNCHANGED <<PostView, held, created>>
         ELSE LET id == FreshId(PostView)
              IN  /\ PostView' = PostView \cup
                        {[id |-> id, user |-> req[r].actor, post |-> req[r].target]}
                  /\ held' = [held EXCEPT ![r] = id]
                  /\ created' = [created EXCEPT ![r] = TRUE]
                  /\ Goto(r, "detail_inc_views")
    /\ UNCHANGED <<TravelPost, User, PostLike, UserFollow, UserPreference,
                   PostShare, PostComment, Destination, PostTag, PostTagRelation,
                   req, ndel, nadj, calls, hist, obj>>

ViewsCountAfter(p) == TravelPost[p].views_count + 1

\* views.py 186-187, and for GET the response: after save() obj.views_count
\* is still the F() expression (views_expr) or was refreshed from the row,
\* as the Django release does it; the serializer cannot render the
\* expression.
DetailIncViews(r) ==
    /\ pc[r] = "detail_inc_views"
    /\ LET p == req[r].target
       IN  IF p \notin DOMAIN TravelPost
             THEN /\ Respond(r, 500, "none")
                  /\ UNCHANGED <<TravelPost, nadj, obj>>
             ELSE /\ TravelPost' = [TravelPost EXCEPT
                                      ![p].views_count = ViewsCountAfter(p)]
                  /\ nadj' = [nadj EXCEPT ![r] = @ + 1]
                  /\ \E expr \in BOOLEAN :
                       /\ obj' = [obj EXCEPT ![r] =
                                    [row |-> [@.row EXCEPT !.views_count =
                                                IF expr THEN @ ELSE ViewsCountAfter(p)],
                                     views_expr |-> expr]]
                       /\ IF req[r].kind = "retrieve"
                            THEN IF expr
                                   THEN Respond(r, 500, "none")
                                   ELSE /\ resp' = [resp EXCEPT ![r] =
                                               [NoResponse EXCEPT !.status = 200,
                                                                  !.results = <<p>>]]
                                        /\ pc' = [pc EXCEPT ![r] = "done"]
                            ELSE Goto(r, IF req[r].kind = "update"
                                           THEN "detail_save" ELSE "detail_delete")
    /\ UNCHANGED <<User, PostLike, UserFollow, UserPreference, sideTables,
                   req, held, created, ndel, calls, hist>>

\* The row instance.save() writes: every column from the instance, the
\* caller's is_public, and views_count from the F() expression when the
\* instance still carries it.
SavedRow(r, stored) ==
    [obj[r].row EXCEPT !.is_public = req[r].is_public[1],
                       !.views_count = IF obj[r].views_expr
                                         THEN stored.views_count + 1 ELSE @]

\* UpdateModelMixin.update: serializer.save() -> instance.save() without
\* update_fields.  When the row is gone save() falls back to an INSERT,
\* which an F() expression makes fail.
DetailSave(r) ==
    /\ pc[r] = "detail_save"
    /\ LET p == req[r].target
           status == IF obj[r].views_expr THEN 500 ELSE 200
       IN  IF p \in DOMAIN TravelPost
             THEN /\ TravelPost' = [TravelPost EXCEPT ![p] = SavedRow(r, TravelPost[p])]
                  /\ nadj' = [nadj EXCEPT ![r] = @ + 1]
                  /\ Respond(r, status, "updated")
             ELSE IF obj[r].views_expr
                    THEN /\ Respond(r, 500, "none")
                         /\ UNCHANGED <<TravelPost, nadj>>
                    ELSE /\ TravelPost' = [q \in DOMAIN TravelPost \cup {p} |->
                                             IF q = p THEN SavedRow(r, obj[r].row)
                                                      ELSE TravelPost[q]]
                         /\ nadj' = [nadj EXCEPT ![r] = @ + 1]
                         /\ Respond(r, 200, "updated")
    /\ UNCHANGED <<User, PostLike, UserFollow, UserPreference, sideTables,
                   req, held, created, ndel, calls, hist, obj>>

\* DestroyModelMixin.destroy: instance.delete() removes the post and, by
\* on_delete=CASCADE, its likes, comments, shares and views, in one
\* transaction.
DetailDelete(r) ==
    /\ pc[r] = "detail_delete"
    /\ LET p == req[r].target
       IN  /\ TravelPost' = [q \in DOMAIN TravelPost \ {p} |-> TravelPost[q]]
           /\ PostLike' = {x \in PostLike : x.post # p}
           /\ PostShare' = {x \in PostShare : x.post # p}
           /\ PostComment' = {x \in PostComment : x.post # p}
           /\ PostView' = {x \in PostView : x.post # p}
           /\ PostTagRelation' = {x \in PostTagRelation : x.post # p}
           /\ ndel' = [ndel EXCEPT ![r] = IF p \in DOMAIN TravelPost THEN 1 ELSE 0]
    /\ Respond(r, 204, "deleted")
    /\ UNCHANGED <<User, UserFollow, UserPreference, Destination, PostTag,
                   req, held, created, nadj, calls, hist, obj>>

(* ------------------- TravelPostListView (POST) ------------------------- *)
\* The tag names TravelPostSerializer.create takes from tags_input
\* (serializers.py 192-197): the whitespace-separated words that start with
\* '#', each with every '#' removed.
tag_names(tags_input) ==
    LET IsTag(w) == strip(w) # <<>> /\ strip(w)[1] = "#"   \* startswith('#')
        words == SelectSeq(split(tags_input), IsTag)
    IN  [i \in 1..Len(words) |-> replace(strip(words[i]), "#")]

TagsNamed(name) == {t \in DOMAIN PostTag : PostTag[t].name = name}

\* PostTagRelation: unique_together = ['post', 'tag']
RelationUniqueViolation(post, tag) ==
    \E x \in PostTagRelation : x.post = post /\ x.tag = tag

\* uuid4 primary keys: a key no row has
NewKey(table) ==
    LET used == DOMAIN table \cup {0}
    IN  (CHOOSE i \in used : \A j \in used : i >= j) + 1

\* serializer.is_valid: tags_input is an optional CharField, trimmed of
\* surrounding whitespace and refused when blank.
CreateValidate(r) ==
    /\ pc[r] = "create_validate"
    /\ IF req[r].tags_input # <<>> /\ strip(req[r].tags_input[1]) = <<>>
         THEN Respond(r, 400, "none")
         ELSE Goto(r, "create_get_destination")
    /\ UNCHANGED <<tables, req, held, created, ndel, nadj, calls, hist, obj>>

\* serializers.py 178-182
CreateGetDestination(r) ==
    /\ pc[r] = "create_get_destination"
    /\ IF req[r].destination_id \in DOMAIN Destination
         THEN Goto(r, "create_insert_post")
         ELSE Respond(r, 400, "none")
    /\ UNCHANGED <<tables, req, held, created, ndel, nadj, calls, hist, obj>>

\* The row TravelPost.objects.create stores (model defaults)
NewPost(r) ==
    [user           |-> req[r].actor,
     is_public      |-> TRUE,
     featured_3d    |-> FALSE,
     created_at     |-> 0,
     description    |-> <<>>,
     likes_count    |-> 0,
     comments_count |-> 0,
     shares_count   |-> 0,
     views_count    |-> 0]

\* After the post and after each tag: the next tag, or the response
CreateContinue(r, todo) ==
    IF todo = <<>> THEN Respond(r, 201, "created") ELSE Goto(r, "create_tag_get")

\* serializers.py 185-197: INSERT of the post, then the tag names parsed
CreateInsertPost(r) ==
    /\ pc[r] = "create_insert_post"
    /\ LET id   == NewKey(TravelPost)
           todo == IF req[r].tags_input = <<>> THEN <<>>
                   ELSE tag_names(strip(req[r].tags_input[1]))
       IN  /\ TravelPost' = [q \in DOMAIN TravelPost \cup {id} |->
                               IF q = id THEN NewPost(r) ELSE TravelPost[q]]
           /\ obj' = [obj EXCEPT ![r] = [post |-> id, todo |-> todo,
                                         posts_count |-> 0, made |-> {}]]
           /\ CreateContinue(r, todo)
    /\ UNCHANGED <<User, PostLike, UserFollow, UserPreference, sideTables,
                   req, held, created, ndel, nadj, calls, hist>>

\* The tag instance get_or_create returns: its pk, the created flag and the
\* posts_count it read
CreateHoldTag(r, t, isNew) ==
    /\ held' = [held EXCEPT ![r] = t]
    /\ created' = [created EXCEPT ![r] = isNew]
    /\ obj' = [obj EXCEPT ![r].posts_count = IF isNew THEN 0
                                             ELSE PostTag[t].posts_count,
                          ![r].made = IF isNew THEN @ \cup {t} ELSE @]

\* serializers.py 200, get_or_create: SELECT by name
CreateTagGet(r) ==
    /\ pc[r] = "create_tag_get"
    /\ LET found == TagsNamed(Head(obj[r].todo))
       IN  IF found # {}
             THEN /\ CreateHoldTag(r, CHOOSE t \in found : TRUE, FALSE)
                  /\ Goto(r, "create_relation")
             ELSE /\ UNCHANGED <<held, created, obj>>
                  /\ Goto(r, "create_tag_insert")
    /\ UNCHANGED <<tables, req, ndel, nadj, calls, hist>>

\* get_or_create: INSERT; on IntegrityError it selects again
CreateTagInsert(r) ==
    /\ pc[r] = "create_tag_insert"
    /\ LET name == Head(obj[r].todo)
           id   == NewKey(PostTag)
       IN  IF TagsNamed(name) # {}          \* PostTag.name is unique
             THEN /\ Goto(r, "create_tag_reget")
                  /\ UNCHANGED <<PostTag, held, created, obj>>
             ELSE /\ PostTag' = [t \in DOMAIN PostTag \cup {id} |->
                                   IF t = id THEN [name |-> name, posts_count |-> 0]
                                   ELSE PostTag[t]]
                  /\ CreateHoldTag(r, id, TRUE)
                  /\ Goto(r, "create_relation")
    /\ UNCHANGED <<TravelPost, User, PostLike, UserFollow, UserPreference,
                   PostShare, PostComment, PostView, Destination,
                   PostTagRelation, req, ndel, nadj, calls, hist>>

\* get_or_create after IntegrityError: the SELECT again
CreateTagReget(r) ==
    /\ pc[r] = "create_tag_reget"
    /\ LET found == TagsNamed(Head(obj[r].todo))
       IN  IF found # {}
             THEN /\ CreateHoldTag(r, CHOOSE t \in found : TRUE, FALSE)
                  /\ Goto(r, "create_relation")
             ELSE /\ UNCHANGED <<held, created, obj>>
                  /\ Respond(r, 500, "none")
    /\ UNCHANGED <<tables, req, ndel, nadj, calls, hist>>

\* serializers.py 201: INSERT of the relation; an IntegrityError is not
\* caught and ends the request
CreateRelation(r) ==
    /\ pc[r] = "create_relation"
    /\ IF RelationUniqueViolation(obj[r].post, held[r])
         THEN /\ Respond(r, 500, "none")
              /\ UNCHANGED PostTagRelation
         ELSE /\ PostTagRelation' = PostTagRelation \cup
                    {[id |-> Cardinality(PostTagRelation) + 1,
                      post |-> obj[r].post, tag |-> held[r]]}
              /\ Goto(r, "create_tag_save")
    /\ UNCHANGED <<TravelPost, User, PostLike, UserFollow, UserPreference,
                   PostShare, PostComment, PostView, Destination, PostTag,
                   req, held, created, ndel, nadj, calls, hist, obj>>

\* serializers.py 202-205: the value computed on the instance in memory
PostsCountAfter(r) == IF created[r] THEN 1 ELSE obj[r].posts_count + 1

\* serializers.py 206: tag.save() writes every field of the instance
CreateTagSave(r) ==
    /\ pc[r] = "create_tag_save"
    /\ PostTag' = [PostTag EXCEPT ![held[r]] =
                      [name |-> Head(obj[r].todo), posts_count |-> PostsCountAfter(r)]]
    /\ nadj' = [nadj EXCEPT ![r] = @ + 1]
    /\ obj' = [obj EXCEPT ![r].todo = Tail(@)]
    /\ CreateContinue(r, Tail(obj[r].todo))
    /\ UNCHANGED <<TravelPost, User, PostLike, UserFollow, UserPreference,
                   PostShare, PostComment, PostView, Destination,
                   PostTagRelation, req, held, created, ndel, calls, hist>>

(* ------------------------------- reads --------------------------------- *)
Min(a, b) == IF a <= b THEN a ELSE b

\* views.py 143: the annotated engagement_score
engagement_score(p) ==
    TravelPost[p].likes_count + TravelPost[p].comments_count * 2
        + TravelPost[p].shares_count * 3

\* order_by(...) as a relation "p may stand before q"; rows that compare
\* equal come back in either order.
InOrder(order, p, q) ==
    CASE order = "-created_at" ->
            TravelPost[p].created_at >= TravelPost[q].created_at
      [] order = "-likes_count" ->
            TravelPost[p].likes_count >= TravelPost[q].likes_count
      [] order = "trending" ->
            \/ engagement_score(p) > engagement_score(q)
            \/ /\ engagement_score(p) = engagement_score(q)
               /\ TravelPost[p].created_at >= TravelPost[q].created_at

RECURSIVE Ordered(_, _)
Ordered(S, order) ==
    IF S = {} THEN {<<>>}
    ELSE UNION {{<<m>> \o t : t \in Ordered(S \ {m}, order)} :
                   m \in {x \in S : \A y \in S : InOrder(order, x, y)}}

PublicPosts == {p \in DOMAIN TravelPost : TravelPost[p].is_public}

\* views.py 148-150: the viewer's follow set
FollowingOf(v) == {x.following : x \in {y \in UserFollow : y.follower = v}}

\* views.py 141-142: created_at__gte = now - 24 hours
InTrendingWindow(p, now) == TravelPost[p].created_at >= now - TrendingWindowHours

\* TravelPostListView.get_queryset, rows (no user, destination or tags
\* parameter in the request)
ListQuerysetRows(viewer, feed, now) ==
    IF feed = "trending"
      THEN {p \in PublicPosts : InTrendingWindow(p, now)}
      ELSE IF feed = "following" /\ viewer # Anonymous
        THEN {p \in PublicPosts : TravelPost[p].user \in FollowingOf(viewer)}
        ELSE IF feed = "3d"
          THEN {p \in PublicPosts : TravelPost[p].featured_3d}
          ELSE PublicPosts

\* TravelPostListView.get_queryset, ordering: order_by of the trending
\* branch, else TravelPost.Meta.ordering
ListQuerysetOrder(feed) == IF feed = "trending" THEN "trending" ELSE "-created_at"

\* filter_backends' OrderingFilter runs on the queryset get_queryset
\* returned: the client's ordering when given, else the view's
\* ordering = ['-created_at']; its order_by replaces the queryset's ordering.
OrderingFilterOrder(param, querysetOrder) ==
    IF param # "none" THEN param ELSE "-created_at"

\* timezone.now() of a request: an instant one trending window after the
\* oldest stored post, or later.
Clocks == {TrendingWindowHours + k * (TrendingWindowHours \div 2) : k \in 0..MaxClock}

FeedModes == {"latest", "trending", "following", "3d"}

\* A read is one SELECT: the request is answered in one step.  Its response
\* stays with the worker until ReadSent hands it out.
ReadPending(r) == pc[r] = "done" /\ req[r].kind \in {"list", "feed", "search"}

ReadBegin(r, request) ==
    /\ Quiet(r)
    /\ ~ReadPending(r)
    /\ req' = [req EXCEPT ![r] = request]
    /\ pc' = [pc EXCEPT ![r] = "done"]
    /\ held' = [held EXCEPT ![r] = 0]
    /\ created' = [created EXCEPT ![r] = FALSE]
    /\ obj' = [obj EXCEPT ![r] = NoObject]
    /\ ndel' = [ndel EXCEPT ![r] = 0]
    /\ nadj' = [nadj EXCEPT ![r] = 0]
    /\ UNCHANGED <<tables, calls, hist>>

ReadStart(r, kind, viewer, feed, ordering, page_size, offset) ==
    ReadBegin(r, [NoRequest EXCEPT !.kind = kind, !.actor = viewer,
                                   !.feed = feed, !.ordering = ordering,
                                   !.page_size = page_size, !.offset = offset])

ReadSent(r) ==
    /\ ReadPending(r)
    /\ pc' = [pc EXCEPT ![r] = "idle"]
    /\ req' = [req EXCEPT ![r] = NoRequest]
    /\ resp' = [resp EXCEPT ![r] = NoResponse]
    /\ UNCHANGED <<tables, held, created, ndel, nadj, calls, hist, obj>>

\* PageNumberPagination.get_page_size: the page_size parameter when it is
\* a positive integer, cut off at max_page_size; else the default size
ListPageSizeOf(param) ==
    IF param # <<>> /\ IsIntText(param[1]) /\ int(param[1]) > 0
      THEN Min(int(param[1]), ListMaxPageSize)
      ELSE ListPageSize

\* GET /posts/: get_queryset, filter_queryset, first page of the paginator
TravelPostListView_list_on(r, Viewers, Modes, Orderings, Sizes, Nows) ==
    \E viewer \in Viewers, feed \in Modes, ordering \in Orderings,
       page_size \in Sizes, now \in Nows :
      /\ ReadStart(r, "list", viewer, feed, ordering, page_size, <<>>)
      /\ LET rows == ListQuerysetRows(viewer, feed, now)
             order == OrderingFilterOrder(ordering, ListQuerysetOrder(feed))
             size == ListPageSizeOf(page_size)
         IN  \E s \in Ordered(rows, order) :
                resp' = [resp EXCEPT ![r] =
                           [NoResponse EXCEPT
                              !.status = 200,
                              !.results = SubSeq(s, 1, Min(Len(s), size)),
                              !.has_next = Len(s) > size,
                              !.now = now]]

TravelPostListView_list(r) ==
    TravelPostListView_list_on(r, Users \cup {Anonymous}, FeedModes,
                               {"none", "-likes_count"}, {<<>>}, Clocks)

\* views.py 373: min(int(page_size or 10), 20)
FeedPageSize(param) ==
    Min(IF param = <<>> THEN FeedDefaultPageSize ELSE int(param[1]), FeedMaxPageSize)

\* views.py 374: int(offset or 0)
FeedOffset(param) == IF param = <<>> THEN 0 ELSE int(param[1])

\* views.py 373-374: int() of a parameter that is no integer text raises
\* ValueError
FeedParamsAreInts(page_size, offset) ==
    /\ page_size = <<>> \/ IsIntText(page_size[1])
    /\ offset = <<>> \/ IsIntText(offset[1])

\* QuerySet.__getitem__ raises on a slice with a negative start or stop
NegativeIndexing(offset, page_size) == offset < 0 \/ offset + page_size < 0

\* views.py 382-389: the personalised queryset
FeedQuerysetRows(viewer) ==
    IF viewer # Anonymous /\ UserPreference[viewer] = "hide3d"
      THEN {p \in PublicPosts : ~TravelPost[p].featured_3d}
      ELSE PublicPosts

\* views.py 392: queryset[offset:offset + page_size]
FeedSlice(s, offset, page_size) ==
    LET low == Min(offset, Len(s))
        high == Min(offset + page_size, Len(s))
    IN  IF high <= low THEN <<>> ELSE SubSeq(s, low + 1, high)

\* GET /feed/: the feed parameter is not read; an exception the view does
\* not catch is answered 500
feed_view_on(r, Viewers, Modes, Sizes, Offsets, Nows) ==
    \E viewer \in Viewers, feed \in Modes, page_size \in Sizes,
       offset \in Offsets, now \in Nows :
      /\ ReadStart(r, "feed", viewer, feed, "none", page_size, offset)
      /\ IF \/ ~FeedParamsAreInts(page_size, offset)
            \/ NegativeIndexing(FeedOffset(offset), FeedPageSize(page_size))
           THEN resp' = [resp EXCEPT ![r] =
                           [NoResponse EXCEPT !.status = 500, !.now = now]]
           ELSE \E s \in Ordered(FeedQuerysetRows(viewer), "-created_at") :
                  LET posts == FeedSlice(s, FeedOffset(offset), FeedPageSize(page_size))
                  IN  resp' = [resp EXCEPT ![r] =
                                [NoResponse EXCEPT
                                   !.status = 200,
                                   !.results = posts,
                                   !.has_next = (Len(posts) = FeedPageSize(page_size)),
                                   !.now = now]]

feed_view(r) ==
    feed_view_on(r, Users \cup {Anonymous}, FeedModes,
                 {<<>>, <<<<"1">>>>, <<<<"2">>>>}, {<<>>, <<<<"1">>>>}, Clocks)

(* ----------------------------- search_view ----------------------------- *)
\* queryset[:10] of a model without Meta.ordering: any SearchLimit rows
Limited(S) ==
    {T \in SUBSET S : Cardinality(T) = Min(Cardinality(S), SearchLimit)}

\* queryset[:10] of TravelPost: the first SearchLimit rows in Meta.ordering
LimitedOrdered(S, order) ==
    {T \in Limited(S) : \A x \in T, y \in S \ T : InOrder(order, x, y)}

\* views.py 343-345
SearchUsers(query) ==
    {u \in DOMAIN User : \/ icontains(User[u].username, query)
                         \/ icontains(User[u].first_name, query)
                         \/ icontains(User[u].last_name, query)}

\* views.py 348-350
SearchDestinations(query) ==
    {d \in DOMAIN Destination : \/ icontains(Destination[d].name, query)
                                \/ icontains(Destination[d].country, query)
                                \/ icontains(Destination[d].city, query)}

\* views.py 353-356
SearchPosts(query) ==
    {p \in DOMAIN TravelPost :
        /\ \/ icontains(TravelPost[p].description, query)
           \/ icontains(User[TravelPost[p].user].username, query)
        /\ TravelPost[p].is_public}

\* views.py 360
SearchTagPattern(query) == replace(query, "#")

SearchTags(query) ==
    {t \in DOMAIN PostTag : icontains(PostTag[t].name, SearchTagPattern(query))}

\* views.py 338: request.GET.get('q', '').strip()
SearchQuery(param) == strip(IF param = <<>> THEN <<>> ELSE param[1])

\* GET /search/
search_view_on(r, Queries) ==
    \E q \in Queries :
      /\ ReadBegin(r, [NoRequest EXCEPT !.kind = "search", !.q = q])
      /\ LET query == SearchQuery(q)
         IN  IF query = <<>>
               THEN resp' = [resp EXCEPT ![r] =
                               [NoResponse EXCEPT !.status = 400, !.flag = "error"]]
               ELSE \E users \in Limited(SearchUsers(query)),
                       destinations \in Limited(SearchDestinations(query)),
                       posts \in LimitedOrdered(SearchPosts(query), "-created_at"),
                       tags \in Limited(SearchTags(query)) :
                      resp' = [resp EXCEPT ![r] =
                                 [NoResponse EXCEPT !.status = 200,
                                                    !.users = users,
                                                    !.destinations = destinations,
                                                    !.posts = posts,
                                                    !.tags = tags]]

QueryChars == {"a", "b", "A", "#", " "}

QueryInputs ==
    {<<>>} \cup {<<t>> : t \in UNION {[1..n -> QueryChars] : n \in 0..MaxQueryLen}}

search_view(r) == search_view_on(r, QueryInputs)

(* --------------------------- specifications ---------------------------- *)
Next ==
    \E r \in Procs :
        \/ Start(r)
        \/ LikeGetPost(r)
        \/ LikeGocGet(r)
        \/ LikeGocInsert(r)
        \/ LikeGocReget(r)
        \/ LikeInc(r)
        \/ LikeDelete(r)
        \/ LikeDec(r)
        \/ FollowGetUser(r)
        \/ FollowGocGet(r)
        \/ FollowGocInsert(r)
        \/ FollowGocReget(r)
        \/ FollowIncFollowers(r)
        \/ FollowIncFollowing(r)
        \/ FollowDelete(r)
        \/ FollowDecFollowers(r)
        \/ FollowDecFollowing(r)

Spec == Init /\ [][Next]_vars

\* Concurrent follow_user requests alone.
NextFollow ==
    \E r \in Procs :
        \/ StartFollow(r)
        \/ FollowGetUser(r)
        \/ FollowGocGet(r)
        \/ FollowGocInsert(r)
        \/ FollowGocReget(r)
        \/ FollowIncFollowers(r)
        \/ FollowIncFollowing(r)
        \/ FollowDelete(r)
        \/ FollowDecFollowers(r)
        \/ FollowDecFollowing(r)

SpecFollow == Init /\ [][NextFollow]_vars

\* Sequential schedule: one worker handles the requests one after another,
\* and the run remembers the last two calls started with the state each met.
Worker == CHOOSE r \in Procs : \A q \in Procs : r <= q

Snapshot(r) ==
    LET q == req'[r]
        like == q.kind = "like"
    IN  [req    |-> q,
         absent |-> IF like THEN LikeRows(q.actor, q.target) = {}
                            ELSE FollowRows(q.actor, q.target) = {},
         c1     |-> IF like
                      THEN IF q.target \in Posts
                             THEN TravelPost[q.target].likes_count ELSE 0
                      ELSE IF q.target \in Users
                             THEN User[q.target].followers_count ELSE 0,
         c2     |-> IF like THEN 0 ELSE User[q.actor].following_count]

StartSeq(r) ==
    /\ AllQuiet
    /\ StartCallOf(r, {"like", "follow"}, MaxSeqCalls)
    /\ hist' = IF hist = <<>> THEN <<Snapshot(r)>>
                              ELSE <<hist[Len(hist)], Snapshot(r)>>

ToggleStep(r) ==
    \/ LikeGetPost(r)
    \/ LikeGocGet(r)
    \/ LikeGocInsert(r)
    \/ LikeInc(r)
    \/ LikeDelete(r)
    \/ LikeDec(r)
    \/ FollowGetUser(r)
    \/ FollowGocGet(r)
    \/ FollowGocInsert(r)
    \/ FollowIncFollowers(r)
    \/ FollowIncFollowing(r)
    \/ FollowDelete(r)
    \/ FollowDecFollowers(r)
    \/ FollowDecFollowing(r)

NextSeq == StartSeq(Worker) \/ ToggleStep(Worker)

SpecSeq == Init /\ [][NextSeq]_vars

\* Requests one at a time, reads among them.
NextFeed ==
    \/ ~ReadPending(Worker) /\ Start(Worker)
    \/ ToggleStep(Worker)
    \/ TravelPostListView_list(Worker)
    \/ feed_view(Worker)
    \/ ReadSent(Worker)

SpecFeed == Init /\ [][NextFeed]_vars

\* Pagination: reads alone over stores of several sizes; the parameters are
\* the texts of the query string.
PageSizeInputs ==
    {<<>>, <<<<"0">>>>, <<<<"5">>>>, <<<<"2", "0">>>>, <<<<"2", "1">>>>,
     <<<<"1", "0", "0">>>>, <<<<"-", "1">>>>, <<<<"x">>>>}

OffsetInputs ==
    {<<>>, <<<<"0">>>>, <<<<"1">>>>, <<<<"2", "5">>>>, <<<<"-", "1">>>>, <<<<"x">>>>}

NextPage ==
    \/ feed_view_on(Worker, Users \cup {Anonymous}, {"latest"},
                    PageSizeInputs, OffsetInputs, {TrendingWindowHours})
    \/ TravelPostListView_list_on(Worker, {Anonymous}, {"latest"}, {"none"},
                                  PageSizeInputs, {TrendingWindowHours})
    \/ ReadSent(Worker)

SpecPage == InitPage /\ [][NextPage]_vars

\* Searches alone.
NextSearch == search_view(Worker) \/ ReadSent(Worker)

SpecSearch == Init /\ [][NextSearch]_vars

\* Every endpoint, one request at a time: the run remembers the tables the
\* request in progress met, and an answered request is handed out before
\* the next one starts.
ServeKinds == {"like", "share", "comment"} \cup DetailKinds

Before ==
    [TravelPost |-> TravelPost, PostLike |-> PostLike, PostShare |-> PostShare,
     PostComment |-> PostComment, PostView |-> PostView]

StartServe(r) ==
    /\ pc[r] = "idle"
    /\ StartCallOf(r, ServeKinds, MaxServeCalls)
    /\ hist' = <<Before>>

CallSent(r) ==
    /\ pc[r] = "done"
    /\ req[r].kind \in ServeKinds
    /\ pc' = [pc EXCEPT ![r] = "idle"]
    /\ req' = [req EXCEPT ![r] = NoRequest]
    /\ resp' = [resp EXCEPT ![r] = NoResponse]
    /\ held' = [held EXCEPT ![r] = 0]
    /\ created' = [created EXCEPT ![r] = FALSE]
    /\ obj' = [obj EXCEPT ![r] = NoObject]
    /\ ndel' = [ndel EXCEPT ![r] = 0]
    /\ nadj' = [nadj EXCEPT ![r] = 0]
    /\ hist' = <<>>
    /\ UNCHANGED <<tables, calls>>

ShareStep(r) ==
    \/ ShareGetPost(r)
    \/ ShareInsert(r)
    \/ ShareInc(r)
    \/ CommentValidate(r)
    \/ CommentGetPost(r)
    \/ CommentInsert(r)
    \/ CommentInc(r)

DetailStep(r) ==
    \/ DetailCheckPermission(r)
    \/ DetailGetObject(r)
    \/ DetailTrackGet(r)
    \/ DetailTrackInsert(r)
    \/ DetailIncViews(r)
    \/ DetailSave(r)
    \/ DetailDelete(r)

LikeStep(r) ==
    \/ LikeGetPost(r)
    \/ LikeGocGet(r)
    \/ LikeGocInsert(r)
    \/ LikeInc(r)
    \/ LikeDelete(r)
    \/ LikeDec(r)

ServeRead(r) ==
    /\ pc[r] = "idle"
    /\ \/ TravelPostListView_list_on(r, Users \cup {Anonymous}, FeedModes,
                                      {"none"}, {<<>>}, {TrendingWindowHours})
       \/ feed_view_on(r, Users \cup {Anonymous}, {"latest"}, {<<>>}, {<<>>},
                        {TrendingWindowHours})
       \/ search_view_on(r, {<<<<"b">>>>, <<<<"c", "a">>>>})

NextServe ==
    \/ StartServe(Worker)
    \/ LikeStep(Worker)
    \/ ShareStep(Worker)
    \/ DetailStep(Worker)
    \/ CallSent(Worker)
    \/ ServeRead(Worker)
    \/ ReadSent(Worker)

SpecServe == InitServe /\ [][NextServe]_vars

\* Concurrent share_post requests and comment creations on stored posts (the
\* third is not public), each client process being the session of one user.
SessionUser(r) == ((r - 1) % NumUsers) + 1

StartShare(r) ==
    /\ StartCallOf(r, {"share", "comment"}, MaxShareCalls)
    /\ req'[r].actor = SessionUser(r)
    /\ req'[r].target \in Posts
    /\ UNCHANGED hist

NextShare == \E r \in Procs : StartShare(r) \/ ShareStep(r)

SpecShare == Init /\ [][NextShare]_vars

\* Every user sends one like_post from a session of their own, all at once.
StartLikeOnce(r) ==
    /\ pc[r] = "idle"
    /\ StartCallOf(r, {"like"}, MaxCalls)
    /\ req'[r].actor = SessionUser(r)
    /\ UNCHANGED hist

NextLikeOnce ==
    \E r \in Procs :
       \/ StartLikeOnce(r)
       \/ LikeGetPost(r)
       \/ LikeGocGet(r)
       \/ LikeGocInsert(r)
       \/ LikeInc(r)

SpecLikeOnce == Init /\ [][NextLikeOnce]_vars

\* Concurrent post creations, each client process being the session of one
\* user, at the first destination or at one that is not stored.
StartCreate(r) ==
    /\ StartCallOf(r, {"create"}, MaxCreateCalls)
    /\ req'[r].actor = SessionUser(r)
    /\ req'[r].destination_id \in {1, UnknownId}
    /\ UNCHANGED hist

NextCreate ==
    \E r \in Procs :
       \/ StartCreate(r)
       \/ CreateValidate(r)
       \/ CreateGetDestination(r)
       \/ CreateInsertPost(r)
       \/ CreateTagGet(r)
       \/ CreateTagInsert(r)
       \/ CreateTagReget(r)
       \/ CreateRelation(r)
       \/ CreateTagSave(r)

\* The store holds no tag when the first post is created.
InitCreate ==
    /\ TravelPost = [p \in Posts |-> InitialPost(p)]
    /\ PostLike = {}
    /\ PostTag = <<>>
    /\ InitOther

SpecCreate == InitCreate /\ [][NextCreate]_vars

(* ------------------------------ properties ----------------------------- *)
LikeCount(p) == Cardinality({x \in PostLike : x.post = p})
FollowerCount(u) == Cardinality({x \in UserFollow : x.following = u})
FollowingCount(u) == Cardinality({x \in UserFollow : x.follower = u})

NoneInProgress(kind) == \A r \in Procs : req[r].kind = kind => Quiet(r)

\* The call the sequential run started last, once it has been answered.
LastDone == hist # <<>> /\ pc[Worker] = "done" /\ req[Worker] = hist[Len(hist)].req
Last == hist[Len(hist)]

\* The last two calls of the sequential run were the same toggle on the same
\* existing target, the first one meeting the pair absent.
SameToggleTwice(kind) ==
    /\ Len(hist) = 2
    /\ LastDone
    /\ hist[1].req = hist[2].req
    /\ hist[1].req.kind = kind
    /\ hist[1].absent
    /\ IF kind = "like"
         THEN PublicPostExists(hist[1].req.target)
         ELSE /\ hist[1].req.target \in Users
              /\ hist[1].req.target # hist[1].req.actor

\* C1: whenever no like_post call is in progress, every post's likes_count
\* equals the number of PostLike rows that reference it.
C1_LikesCountEqualsRows ==
    NoneInProgress("like") =>
        \A p \in Posts : TravelPost[p].likes_count = LikeCount(p)

\* C2: a like_post call that does not overlap another call toggles: from
\* absent it leaves exactly one row, the count one higher, answers
\* liked=true and is_liked reads true; from present it leaves no row, the
\* count one lower, answers liked=false and is_liked reads false.
C2_LikeIsTwoStateToggle ==
    (LastDone /\ Last.req.kind = "like" /\ PublicPostExists(Last.req.target)) =>
        LET u == Last.req.actor
            p == Last.req.target
        IN  IF Last.absent
              THEN /\ Cardinality(LikeRows(u, p)) = 1
                   /\ TravelPost[p].likes_count = Last.c1 + 1
                   /\ resp[Worker].status = 200
                   /\ resp[Worker].flag = "true"
                   /\ get_is_liked(u, p)
              ELSE /\ LikeRows(u, p) = {}
                   /\ TravelPost[p].likes_count = Last.c1 - 1
                   /\ resp[Worker].status = 200
                   /\ resp[Worker].flag = "false"
                   /\ ~get_is_liked(u, p)

\* C3: two consecutive toggles by the same actor on the same target, the
\* first from the absent state, leave no relation row for the pair and
\* every affected counter at its value before the first call.
C3_ToggleTwiceRestores ==
    /\ SameToggleTwice("like") =>
          /\ LikeRows(hist[1].req.actor, hist[1].req.target) = {}
          /\ TravelPost[hist[1].req.target].likes_count = hist[1].c1
    /\ SameToggleTwice("follow") =>
          /\ FollowRows(hist[1].req.actor, hist[1].req.target) = {}
          /\ User[hist[1].req.target].followers_count = hist[1].c1
          /\ User[hist[1].req.actor].following_count = hist[1].c2

C3_Witness ==
    /\ SameToggleTwice("follow")
    /\ nadj[Worker] = 2
    /\ ndel[Worker] = 1
    /\ hist[2].c1 = hist[1].c1 + 1

\* C4 as stated: after a duplicate follow_user call there is still exactly
\* one UserFollow(A,B) row and followers_count was incremented once.
C4_DuplicateFollowKeepsRow ==
    SameToggleTwice("follow") =>
        /\ Cardinality(FollowRows(hist[1].req.actor, hist[1].req.target)) = 1
        /\ User[hist[1].req.target].followers_count = hist[1].c1 + 1

\* C4 amended: the first follow_user call leaves exactly one UserFollow(A,B)
\* row and followers_count one higher; the duplicate call is an unfollow,
\* after it there is no row and followers_count is back at its value before
\* the first call; there is never more than one row for the pair.
C4_DuplicateFollowUnfollows ==
    /\ \A a, b \in Users : Cardinality(FollowRows(a, b)) <= 1
    /\ (/\ LastDone
        /\ Last.req.kind = "follow"
        /\ Last.absent
        /\ Last.req.target \in Users
        /\ Last.req.target # Last.req.actor) =>
          /\ Cardinality(FollowRows(Last.req.actor, Last.req.target)) = 1
          /\ User[Last.req.target].followers_count = Last.c1 + 1
          /\ resp[Worker].flag = "true"
    /\ SameToggleTwice("follow") =>
          /\ FollowRows(hist[1].req.actor, hist[1].req.target) = {}
          /\ User[hist[1].req.target].followers_count = hist[1].c1
          /\ resp[Worker].flag = "false"

C4_Witness ==
    /\ SameToggleTwice("follow")
    /\ resp[Worker].status = 200
    /\ hist[2].c1 = 1
    /\ User[hist[1].req.target].followers_count = 0

\* C5: follow_user with the caller as target is answered 400 before the
\* toggle: the request reads no relation row, creates or deletes none and
\* updates no counter, so no UserFollow row has follower = following.
C5_SelfFollowRejected ==
    /\ \A x \in UserFollow : x.follower # x.following
    /\ \A r \in Procs :
          (req[r].kind = "follow" /\ req[r].target = req[r].actor) =>
              /\ pc[r] \in {"follow_get_user", "done"}
              /\ held[r] = 0 /\ ~created[r] /\ ndel[r] = 0 /\ nadj[r] = 0
              /\ pc[r] = "done" => resp[r].status = 400

C5_Witness ==
    \E r \in Procs :
        /\ req[r].kind = "follow" /\ req[r].target = req[r].actor
        /\ pc[r] = "done" /\ resp[r].status = 400
        /\ FollowingCount(req[r].actor) = 1
        /\ User[req[r].actor].following_count = 1

\* C6: whenever no follow_user call is in progress, every account's
\* followers_count and following_count equal the numbers of UserFollow rows
\* that name it as following and as follower.
C6_FollowCountsEqualRows ==
    NoneInProgress("follow") =>
        \A u \in Users : /\ User[u].followers_count = FollowerCount(u)
                         /\ User[u].following_count = FollowingCount(u)

\* A request that took the remove branch for the relation row it fetched
\* and has committed a decrement.
Decremented(r) ==
    req[r].kind \in {"like", "follow"} /\ held[r] # 0 /\ ~created[r] /\ nadj[r] > 0

\* C7: the stored counters are never negative, and no two requests commit
\* a decrement for the same relation row.
C7_NonNegativeNoDoubleDecrement ==
    /\ \A p \in Posts : TravelPost[p].likes_count >= 0
    /\ \A u \in Users : User[u].followers_count >= 0 /\ User[u].following_count >= 0
    /\ \A r1, r2 \in Procs :
          (/\ r1 # r2
           /\ Decremented(r1) /\ Decremented(r2)
           /\ req[r1].kind = req[r2].kind) => held[r1] # held[r2]

ReadDone(r, kinds) == pc[r] = "done" /\ req[r].kind \in kinds

\* C8: no post in a trending response was created more than 24 hours
\* before the request was processed, on GET /feed and on the post listing.
C8_TrendingNeverOlderThan24h ==
    \A r \in Procs :
        (ReadDone(r, {"list", "feed"}) /\ req[r].feed = "trending") =>
            \A i \in 1..Len(resp[r].results) :
                TravelPost[resp[r].results[i]].created_at
                    >= resp[r].now - TrendingWindowHours

\* C9: a trending listing without an ordering parameter is ordered by
\* engagement score descending, ties by creation time descending.
C9_TrendingOrderedByScore ==
    \A r \in Procs :
        (ReadDone(r, {"list"}) /\ req[r].feed = "trending"
                               /\ req[r].ordering = "none") =>
            \A i, j \in 1..Len(resp[r].results) :
                i < j => InOrder("trending", resp[r].results[i], resp[r].results[j])

\* C10: every post of a 3d response has featured_3d set, and every post of
\* a following response to an authenticated viewer is by an author the
\* viewer follows at the time of the query.
C10_ModeRestrictionHolds ==
    \A r \in Procs :
        ReadDone(r, {"list", "feed"}) =>
            \A i \in 1..Len(resp[r].results) :
                /\ req[r].feed = "3d" => TravelPost[resp[r].results[i]].featured_3d
                /\ (req[r].feed = "following" /\ req[r].actor # Anonymous) =>
                      TravelPost[resp[r].results[i]].user \in FollowingOf(req[r].actor)

\* C11: an authenticated viewer whose preference has show_3d_content = false
\* gets no post with featured_3d set in a latest-mode response, on GET /feed
\* and on the post listing.
C11_Hide3dViewerGetsNo3dInLatest ==
    \A r \in Procs :
        (/\ ReadDone(r, {"list", "feed"})
         /\ req[r].feed = "latest"
         /\ req[r].actor # Anonymous
         /\ UserPreference[req[r].actor] = "hide3d") =>
            \A i \in 1..Len(resp[r].results) :
                ~TravelPost[resp[r].results[i]].featured_3d

\* The rows a read of the given kind selects from for its viewer in latest
\* mode.
AvailablePosts(r) ==
    IF req[r].kind = "feed" THEN FeedQuerysetRows(req[r].actor) ELSE PublicPosts

\* The page size a request asks for, when it asks for one.
AsksPageSize(r) == req[r].page_size # <<>> /\ IsIntText(req[r].page_size[1])
AskedPageSize(r) == int(req[r].page_size[1])

FromStart(r) == req[r].offset = <<>> \/ req[r].offset = <<<<"0">>>>

\* C13: a feed or listing request from offset 0 whose page_size exceeds the
\* number N of available public posts is answered with all N posts and
\* has_next = false.
C13_OversizedPageReturnsAll ==
    \A r \in Procs :
        (/\ ReadDone(r, {"feed", "list"})
         /\ req[r].feed = "latest"
         /\ FromStart(r)
         /\ AsksPageSize(r)
         /\ AskedPageSize(r) > Cardinality(AvailablePosts(r))) =>
            /\ resp[r].status = 200
            /\ Len(resp[r].results) = Cardinality(AvailablePosts(r))
            /\ ~resp[r].has_next

\* C14: for every requested page_size and offset feed_view answers with a
\* page of at most the maximum size that holds the posts at positions
\* offset .. offset + clamped page size - 1 of the result ordering, and
\* has_next is true exactly when the page holds as many posts as the
\* clamped page size.
C14_FeedPageIsClampedSlice ==
    \A r \in Procs :
        ReadDone(r, {"feed"}) =>
            /\ resp[r].status = 200
            /\ Len(resp[r].results) <= FeedMaxPageSize
            /\ FeedParamsAreInts(req[r].page_size, req[r].offset)
            /\ LET size == FeedPageSize(req[r].page_size)
                   offset == FeedOffset(req[r].offset)
               IN  /\ \E s \in Ordered(FeedQuerysetRows(req[r].actor), "-created_at") :
                         /\ \A i \in 1..Len(resp[r].results) :
                               /\ offset + i \in 1..Len(s)
                               /\ resp[r].results[i] = s[offset + i]
                         /\ \A k \in 1..Len(s) :
                               (k > offset /\ k <= offset + size) =>
                                   k - offset \in 1..Len(resp[r].results)
                   /\ resp[r].has_next <=> (Len(resp[r].results) = size)

\* The tag rule of the search: the query with its leading '#' characters
\* stripped.
RECURSIVE LeadingHashStripped(_)
LeadingHashStripped(t) ==
    IF t # <<>> /\ t[1] = "#" THEN LeadingHashStripped(Tail(t)) ELSE t

\* The query a search request carries, trimmed.
Trimmed(r) == strip(IF req[r].q = <<>> THEN <<>> ELSE req[r].q[1])

\* C15: a search whose q is missing, empty or whitespace is answered 400
\* with no result list; every other search is answered with four lists of
\* at most 10 entries each, every user, destination and post matching q in
\* one of its fields and every tag name matching q without its leading '#'.
C15_SearchValidatesCapsAndMatches ==
    \A r \in Procs :
        ReadDone(r, {"search"}) =>
            IF Trimmed(r) = <<>>
              THEN /\ resp[r].status = 400
                   /\ resp[r].users = {} /\ resp[r].destinations = {}
                   /\ resp[r].posts = {} /\ resp[r].tags = {}
              ELSE /\ resp[r].status = 200
                   /\ Cardinality(resp[r].users) <= SearchLimit
                   /\ Cardinality(resp[r].destinations) <= SearchLimit
                   /\ Cardinality(resp[r].posts) <= SearchLimit
                   /\ Cardinality(resp[r].tags) <= SearchLimit
                   /\ \A u \in resp[r].users :
                         \/ icontains(User[u].username, Trimmed(r))
                         \/ icontains(User[u].first_name, Trimmed(r))
                         \/ icontains(User[u].last_name, Trimmed(r))
                   /\ \A d \in resp[r].destinations :
                         \/ icontains(Destination[d].name, Trimmed(r))
                         \/ icontains(Destination[d].country, Trimmed(r))
                         \/ icontains(Destination[d].city, Trimmed(r))
                   /\ \A p \in resp[r].posts :
                         \/ icontains(TravelPost[p].description, Trimmed(r))
                         \/ icontains(User[TravelPost[p].user].username, Trimmed(r))
                   /\ \A t \in resp[r].tags :
                         icontains(PostTag[t].name, LeadingHashStripped(Trimmed(r)))

\* The request in progress (or answered and not yet handed out) of the
\* one-at-a-time run, with the tables it met.
Serving(r, kinds) == hist # <<>> /\ req[r].kind \in kinds
Met == hist[1]

MetPost(r) == req[r].target \in DOMAIN Met.TravelPost

PostUntouched(p) ==
    /\ p \in DOMAIN TravelPost
    /\ TravelPost[p] = Met.TravelPost[p]
    /\ \A name \in {"PostLike", "PostShare", "PostComment", "PostView"} :
          {x \in Before[name] : x.post = p} = {x \in Met[name] : x.post = p}

NothingWritten(r) ==
    /\ held[r] = 0 /\ ~created[r] /\ ndel[r] = 0 /\ nadj[r] = 0
    /\ Before = Met

C16_UnknownPostIs404 ==
    \A r \in Procs :
        (/\ Serving(r, {"like", "share", "comment"})
         /\ req[r].kind = "comment" => req[r].content # <<>>
         /\ ~MetPost(r)) =>
            /\ NothingWritten(r)
            /\ pc[r] = "done" => resp[r].status = 404

\* C17: a PUT or DELETE of a stored post by an authenticated account that
\* is not the post's owner is refused (401, 403, or 404 for a post the
\* caller cannot see) and leaves the post row and its likes, comments,
\* shares and views as they were.
C17_NonOwnerCannotChangePost ==
    \A r \in Procs :
        (/\ Serving(r, {"update", "destroy"})
         /\ req[r].actor # Anonymous
         /\ MetPost(r)
         /\ Met.TravelPost[req[r].target].user # req[r].actor) =>
            /\ PostUntouched(req[r].target)
            /\ pc[r] = "done" => resp[r].status \in {401, 403, 404}

\* C18: every stored PostShare row carries a platform of the fixed
\* enumeration, whatever platform the callers of share_post pass.
C18_SharePlatformInEnumeration ==
    \A x \in PostShare : x.platform \in Platforms

\* A share_post request or comment creation that has stored its row.
Stored(r) == req[r].kind \in {"share", "comment"} /\ created[r]

\* C19: whenever no share_post call and no comment creation is in progress,
\* every post's shares_count and comments_count equal its numbers of
\* PostShare and PostComment rows; a request that succeeded has added one
\* row for its caller and post and 1 to that counter, a request that
\* failed has added nothing, and no other counter has changed.
C19_ShareAndCommentCountsEqualRows ==
    /\ (NoneInProgress("share") /\ NoneInProgress("comment")) =>
          \A p \in DOMAIN TravelPost :
              /\ TravelPost[p].shares_count = Cardinality(ShareRows(p))
              /\ TravelPost[p].comments_count = Cardinality(CommentRows(p))
    /\ \A p \in DOMAIN TravelPost :
          /\ TravelPost[p].likes_count = InitialPost(p).likes_count
          /\ TravelPost[p].views_count = InitialPost(p).views_count
    /\ \A r \in Procs :
          (req[r].kind \in {"share", "comment"} /\ pc[r] = "done") =>
              IF Stored(r)
                THEN /\ nadj[r] = 1
                     /\ \E x \in (IF req[r].kind = "share" THEN PostShare
                                                            ELSE PostComment) :
                           /\ x.id = held[r]
                           /\ x.user = req[r].actor
                           /\ x.post = req[r].target
                     /\ \A q \in Procs \ {r} :
                           (Stored(q) /\ req[q].kind = req[r].kind) =>
                               held[q] # held[r]
                ELSE held[r] = 0 /\ nadj[r] = 0

C19_Witness ==
    /\ AllQuiet
    /\ \E p \in DOMAIN TravelPost :
          /\ TravelPost[p].shares_count = 2
          /\ \E x, y \in ShareRows(p) : x.user # y.user
    /\ \A r \in Procs : Stored(r)

\* C20: there is never more than one PostLike row per (user, post) or
\* UserFollow row per (follower, following), and a like_post request whose
\* INSERT was rejected by the uniqueness check does not go on to the unlike
\* branch, where the row the other call created is deleted.
C20_RejectedLikeIsNotAnUnlike ==
    [][/\ \A u \in Users, p \in Posts : Cardinality(LikeRows(u, p))' <= 1
       /\ \A a, b \in Users : Cardinality(FollowRows(a, b))' <= 1
       /\ \A r \in Procs :
             pc[r] = "like_goc_reget" => pc'[r] # "like_delete"]_vars

\* The sessions whose like_post on public post p has been answered.
LikersOf(p) ==
    {r \in Procs : /\ pc[r] = "done"
                    /\ req[r].kind = "like"
                    /\ req[r].target = p
                    /\ PublicPostExists(p)}

\* C21: when distinct users who have not liked post P each run like_post on
\* P, in any interleaving of the steps of their calls, no call takes the
\* unlike branch, and once all calls are over P.likes_count has grown by the
\* number of callers and there is exactly one new PostLike row per caller.
C21_ConcurrentLikesLoseNoUpdate ==
    /\ \A r \in Procs : pc[r] \notin {"like_goc_reget", "like_delete", "like_dec"}
    /\ AllQuiet =>
          \A p \in Posts :
             /\ TravelPost[p].likes_count =
                   InitialPost(p).likes_count + Cardinality(LikersOf(p))
             /\ Cardinality({x \in PostLike : x.post = p}) = Cardinality(LikersOf(p))
             /\ \A r \in LikersOf(p) : LikeRows(req[r].actor, p) # {}

\* Every session's like of one and the same post has been answered.
C21_Witness ==
    /\ AllQuiet
    /\ \E p \in Posts :
          /\ LikersOf(p) = Procs
          /\ TravelPost[p].likes_count = NumProcs
          /\ {x.user : x \in PostLike} = {SessionUser(r) : r \in Procs}

\* C22: a follow_user toggle is all-or-nothing: after every terminated
\* call, completed or failed, either the UserFollow row change and both
\* counter adjustments (the target's followers_count and the caller's
\* following_count) have happened, or none of the three has.
C22_FollowToggleAllOrNothing ==
    \A r \in Procs :
       (pc[r] = "done" /\ req[r].kind = "follow") =>
          LET rowChanged == created[r] \/ ndel[r] > 0
          IN  \/ rowChanged /\ nadj[r] = 2
              \/ ~rowChanged /\ nadj[r] = 0

\* A post creation that has ended without its 201.
FailedCreate(r) ==
    pc[r] = "done" /\ req[r].kind = "create" /\ resp[r].status # 201

\* C23: post creation is all-or-nothing: after a creation that failed
\* (unknown destination_id, or tags_input naming the same tag twice) no
\* TravelPost row, no PostTag row, no PostTagRelation row and no posts_count
\* change of that call persists; and no post carries the same tag twice.
C23_CreateIsAllOrNothing ==
    /\ \A r \in Procs :
          FailedCreate(r) =>
             /\ nadj[r] = 0
             /\ obj[r] # NoObject =>
                   /\ obj[r].post \notin DOMAIN TravelPost
                   /\ \A x \in PostTagRelation : x.post # obj[r].post
                   /\ obj[r].made \cap DOMAIN PostTag = {}
    /\ \A x, y \in PostTagRelation :
          (x.post = y.post /\ x.tag = y.tag) => x.id = y.id

\* No post creation is between its first and its last statement.
NoCreateInProgress == \A r \in Procs : req[r].kind = "create" => Quiet(r)

RelationCount(t) == Cardinality({x \in PostTagRelation : x.tag = t})

\* C24: whenever no post creation is in progress and every creation so far
\* has succeeded, every tag's posts_count equals the number of
\* PostTagRelation rows for the tag, also after creations that name the same
\* tag and overlap in time.
C24_PostsCountEqualsRelations ==
    (NoCreateInProgress /\ \A r \in Procs : ~FailedCreate(r)) =>
       \A t \in DOMAIN PostTag : PostTag[t].posts_count = RelationCount(t)

====
